---------------------------- MODULE Spec2Model ----------------------------
(***************************************************************************)
(* Freshly: the image generators of the gemini service                     *)
(* (generateIndividualIcon, generateOnboardingImage, generateRecipeImage)  *)
(* and the React effects that load and cache their results                 *)
(* (Onboarding.fetchImage, fetchIcons, fetchItemIcons, fetchEmptyStates).  *)
(*                                                                         *)
(* JavaScript runs the code on one thread: an action of this module is one *)
(* uninterrupted stretch of code, from the point where an async function   *)
(* is resumed (a promise settles, a timer fires, the user acts) to its     *)
(* next await or its end.                                                  *)
(***************************************************************************)
EXTENDS Integers, Sequences, FiniteSets, Bags, TLC

\* ------------------------------------------------------------------ bounds
MaxPayload == 2      \* distinct image payloads the provider can return
MaxRuns == 2         \* async effect functions started in one behaviour
MaxScript == 4       \* length of the scripted provider answers of a direct call
NumCategories == 2   \* categories (of `categories` and of FOOD_CATEGORIES) modelled
NumItems == 1        \* items of each modelled category
MaxDay == 9          \* last day of the calendar the dates are drawn from
MaxRows == 2         \* inventory rows created in one behaviour
MaxAge == 1          \* days that pass while the inventory is used
MaxPending == 2      \* GET /api/inventory requests in flight at one time
MaxList == 3         \* items of a list handed to the inventory view

\* ------------------------------------------------------- values and helpers
Payloads == 1..MaxPayload

\* JavaScript's undefined and the empty string: both falsy, and distinct.
Undefined == <<"undefined">>
EmptyString == <<>>

\* `data:image/png;base64,${part.inlineData.data}`
DataUrl(data) == <<"data:image/png;base64,", data>>

Truthy(v) == v # Undefined /\ v # EmptyString

RemoveAt(s, i) == [j \in 1..(Len(s) - 1) |-> IF j < i THEN s[j] ELSE s[j + 1]]

RECURSIVE SumSeq(_)
SumSeq(s) == IF s = <<>> THEN 0 ELSE s[1] + SumSeq(Tail(s))

\* -------------------------------------------------------------- the provider
\* What ai.models.generateContent can do with one call: return a response with
\* an inlineData part, return a response without one, or throw.  A thrown
\* error exposes its code as error.error.code, as error.status, or neither
\* (0 stands for an absent, falsy field).
ResponseShapes ==
    { [type |-> "image", code |-> 0,   status |-> 0],
      [type |-> "empty", code |-> 0,   status |-> 0],
      [type |-> "error", code |-> 429, status |-> 0],
      [type |-> "error", code |-> 0,   status |-> 429],
      [type |-> "error", code |-> 500, status |-> 500] }

NoResponse == [type |-> "none", code |-> 0, status |-> 0, data |-> 0]

WithData(shape, d) ==
    [type |-> shape.type, code |-> shape.code, status |-> shape.status, data |-> d]

Responses ==
    { WithData(s, d) : s \in {x \in ResponseShapes : x.type = "image"}, d \in Payloads }
    \cup { WithData(s, 0) : s \in {x \in ResponseShapes : x.type # "image"} }

\* The provider's rate-limit signal: a failure carrying code 429.
IsRateLimited(resp) ==
    resp.type = "error" /\ (resp.code = 429 \/ resp.status = 429)

IsOtherFailure(resp) == resp.type = "error" /\ ~IsRateLimited(resp)

\* ------------------------------------------------------------ the generators
\* What one invocation does with the provider's answer: return a value, throw,
\* or wait and call itself again with retryCount + 1.
Return(v) == [act |-> "return", value |-> v, wait |-> 0]
Retry(ms) == [act |-> "retry", value |-> EmptyString, wait |-> ms]
Throw == [act |-> "throw", value |-> EmptyString, wait |-> 0]

generateRecipeImage(response, retryCount) ==
    IF response.type = "error" THEN Throw
    ELSE IF response.type = "image" THEN Return(DataUrl(response.data))
    ELSE Return(EmptyString)

\* The literals of generateIndividualIcon's catch block.
IconMaxRetries == 3
IconBaseDelay == 5000

\* Variants of generateIndividualIcon with one slip each: the retry test off by
\* one; every thrown error retried; a failure that is not retried thrown on.
generateIndividualIcon_offByOne(response, retryCount) ==
    IF response.type = "image" THEN Return(DataUrl(response.data))
    ELSE IF response.type = "error" /\ response.code = 429
            /\ retryCount <= IconMaxRetries
         THEN Retry(IconBaseDelay * (retryCount + 1))
    ELSE Return(EmptyString)

generateIndividualIcon_retryAny(response, retryCount) ==
    IF response.type = "image" THEN Return(DataUrl(response.data))
    ELSE IF response.type = "error" /\ retryCount < IconMaxRetries
         THEN Retry(IconBaseDelay * (retryCount + 1))
    ELSE Return(EmptyString)

generateIndividualIcon_rethrows(response, retryCount) ==
    IF response.type = "image" THEN Return(DataUrl(response.data))
    ELSE IF response.type = "error" /\ response.code = 429
            /\ retryCount < IconMaxRetries
         THEN Retry(IconBaseDelay * (retryCount + 1))
    ELSE IF response.type = "error" THEN Throw
    ELSE Return(EmptyString)

generateIndividualIcon(response, retryCount) ==
    IF response.type = "image" THEN Return(DataUrl(response.data))
    ELSE IF response.type = "error" /\ response.code = 429
            /\ retryCount < IconMaxRetries
         THEN Retry(IconBaseDelay * (retryCount + 1))
    ELSE Return(EmptyString)

\* The literals of generateOnboardingImage's catch block.
OnboardingMaxRetries == 3
OnboardingBaseDelay == 10000

\* Variants of generateOnboardingImage with one slip each: the wait computed
\* from retryCount instead of retryCount + 1; a response without an image
\* retried like a rate-limit failure.
generateOnboardingImage_waitFromZero(response, retryCount) ==
    LET errorCode == IF response.code # 0 THEN response.code ELSE response.status
    IN  IF response.type = "image" THEN Return(DataUrl(response.data))
        ELSE IF response.type = "error" /\ errorCode = 429
                /\ retryCount < OnboardingMaxRetries
             THEN Retry(OnboardingBaseDelay * retryCount)
        ELSE Return(EmptyString)

generateOnboardingImage_retryEmpty(response, retryCount) ==
    LET errorCode == IF response.code # 0 THEN response.code ELSE response.status
    IN  IF response.type = "image" THEN Return(DataUrl(response.data))
        ELSE IF (response.type = "empty" \/ (response.type = "error" /\ errorCode = 429))
                /\ retryCount < OnboardingMaxRetries
             THEN Retry(OnboardingBaseDelay * (retryCount + 1))
        ELSE Return(EmptyString)

generateOnboardingImage(response, retryCount) ==
    LET errorCode == IF response.code # 0 THEN response.code ELSE response.status
    IN  IF response.type = "image" THEN Return(DataUrl(response.data))
        ELSE IF response.type = "error" /\ errorCode = 429
                /\ retryCount < OnboardingMaxRetries
             THEN Retry(OnboardingBaseDelay * (retryCount + 1))
        ELSE Return(EmptyString)

Generate(fn, response, retryCount) ==
    CASE fn = "generateIndividualIcon" -> generateIndividualIcon(response, retryCount)
      [] fn = "generateOnboardingImage" -> generateOnboardingImage(response, retryCount)
      [] fn = "generateRecipeImage" -> generateRecipeImage(response, retryCount)

Generators == {"generateIndividualIcon", "generateOnboardingImage", "generateRecipeImage"}

\* ------------------------------------------------------------ program data
\* Onboarding's `steps` array has three entries.
NumSteps == 3
Steps == 0..(NumSteps - 1)

\* fetchIcons' `categories`: the five category icons seeded at start-up.
allCategories ==
    << [id |-> "granos",    name |-> "a bowl of rice",   cat |-> "Grains"],
       [id |-> "verduras",  name |-> "fresh broccoli",   cat |-> "Vegetables"],
       [id |-> "frutas",    name |-> "a red apple",      cat |-> "Fruits"],
       [id |-> "lacteos",   name |-> "a bottle of milk", cat |-> "Dairy"],
       [id |-> "proteinas", name |-> "a beef steak",     cat |-> "Proteins"] >>

\* The part of `categories` the model explores.
categories == SubSeq(allCategories, 1, NumCategories)

CategoryIds == { categories[i].id : i \in 1..Len(categories) }

\* fetchEmptyStates' `states`.
states == << "inventory", "recipes" >>
EmptyStateIds == { states[i] : i \in 1..Len(states) }

\* FOOD_CATEGORIES, item names only (shelfLife plays no part in icon loading).
FOOD_CATEGORIES ==
    << [id |-> "lacteos",   name |-> "Dairy",
        items |-> <<"Milk", "Yogurt", "Cheese", "Butter", "Eggs">>],
       [id |-> "frutas",    name |-> "Fruits",
        items |-> <<"Apples", "Bananas", "Strawberries", "Oranges", "Grapes">>],
       [id |-> "granos",    name |-> "Grains",
        items |-> <<"Rice", "Lentils", "Beans", "Pasta", "Oats">>],
       [id |-> "proteinas", name |-> "Proteins",
        items |-> <<"Chicken", "Beef", "Fish", "Pork", "Tofu">>],
       [id |-> "verduras",  name |-> "Vegetables",
        items |-> <<"Spinach", "Tomatoes", "Carrots", "Broccoli", "Onions">>] >>

\* The part of FOOD_CATEGORIES the model explores.
CategoryIndexes == 1..NumCategories
ItemIndexes == 1..NumItems
ItemName(c, n) == FOOD_CATEGORIES[c].items[n]
ItemNames == { ItemName(c, n) : c \in CategoryIndexes, n \in ItemIndexes }

OnboardingKey(s) == <<"onboarding_img_0", "onboarding_img_1", "onboarding_img_2">>[s + 1]

\* ------------------------------------------------------------------- dates
\* Instants are whole hours since the epoch 1970-01-01T00:00Z (getTime() in
\* units of an hour); a day is 1000 * 60 * 60 * 24 ms.
HoursPerDay == 24

\* A time zone of the host: local time is UTC + before until the instant
\* change and UTC + after from then on.  The zones with a change move their
\* clocks at 02:00 local time of day 4: forward (a 23 hour day), back (25 hours).
UTC == [name |-> "UTC", before |-> 0, after |-> 0, change |-> 0]
Zones ==
    { UTC,
      [name |-> "UTC-5", before |-> -5, after |-> -5, change |-> 0],
      [name |-> "UTC+2", before |-> 2, after |-> 2, change |-> 0],
      [name |-> "forward", before |-> -5, after |-> -4, change |-> 4 * HoursPerDay + 7],
      [name |-> "back", before |-> -4, after |-> -5, change |-> 4 * HoursPerDay + 6] }

Offset(z, t) == IF t < z.change THEN z.before ELSE z.after

\* The local calendar day of instant t, as a day number.
LocalDate(z, t) == (t + Offset(z, t)) \div HoursPerDay

\* date.setHours(0, 0, 0, 0): the instant of local midnight of t's local day.
setHours0(z, t) ==
    LET d == LocalDate(z, t)
        c == d * HoursPerDay - z.before
    IN  IF c < z.change THEN c ELSE d * HoursPerDay - z.after

\* date.setDate(date.getDate() + n): the same local time n calendar days on.
setDate(z, t, n) ==
    LET wall == t + Offset(z, t) + n * HoursPerDay
        c == wall - z.before
    IN  IF c < z.change THEN c ELSE wall - z.after

\* Date strings.  "YYYY-MM-DD" names a day; date.toISOString() gives
\* "YYYY-MM-DDTHH:mm:ss.sssZ", the UTC day and time of the instant.
DateOnly(d) == [form |-> "date", day |-> d, hour |-> 0]
toISOString(t) == [form |-> "iso", day |-> t \div HoursPerDay, hour |-> t % HoursPerDay]
NoDate == [form |-> "none", day |-> 0, hour |-> 0]

\* new Date(string): both forms are read as UTC.
NewDate(str) == str.day * HoursPerDay + str.hour

NoStatus == [category |-> "none", daysLeft |-> 0]

\* A variant of getExpiryStatus whose first threshold is off by one.
getExpiryStatus_strict(date, t, z) ==
    LET today == setHours0(z, t)
        expiry == setHours0(z, NewDate(date))
        diffTime == expiry - today
        daysLeft == diffTime \div HoursPerDay
    IN  IF daysLeft < 2 THEN [category |-> "Urgent", daysLeft |-> daysLeft]
        ELSE IF daysLeft <= 5 THEN [category |-> "Soon", daysLeft |-> daysLeft]
        ELSE [category |-> "Fresh", daysLeft |-> daysLeft]

\* getExpiryStatus(expiryDate) called at instant t on a host in zone z.
getExpiryStatus(date, t, z) ==
    LET today == setHours0(z, t)
        expiry == setHours0(z, NewDate(date))
        diffTime == expiry - today
        daysLeft == diffTime \div HoursPerDay
    IN  IF daysLeft <= 2 THEN [category |-> "Urgent", daysLeft |-> daysLeft]
        ELSE IF daysLeft <= 5 THEN [category |-> "Soon", daysLeft |-> daysLeft]
        ELSE [category |-> "Fresh", daysLeft |-> daysLeft]

\* ------------------------------------------------------------------- state
VARIABLES
    scenario,            \* which part of the program this behaviour exercises
    mounted,             \* the mount effects of this page load have run
    nruns,               \* async effect functions started so far
    runs,                \* the async functions in flight, oldest first
    fin,                 \* the logical request the last step completed, if any
    script,              \* scripted provider answers of a direct generator call
    unhandled,           \* a promise rejection escaped an effect
    step,                \* Onboarding: useState(0)
    images,              \* Onboarding: Record<number, string>
    loadingImages,       \* Onboarding: Record<number, boolean>
    categoryIcons,       \* App: Record<string, string>
    itemIcons,           \* App: Record<string, string>
    emptyStates,         \* App: Record<string, string>
    loadingEmptyStates,  \* App: Record<string, boolean>
    selectedCategory,    \* App: index into FOOD_CATEGORIES, 0 for null
    manualAddStep,       \* App: 'categories' | 'items' | 'congrats' | null
    idb,                 \* the idb-keyval store, by key prefix
    now,                 \* the current instant, in hours since the epoch
    zone,                \* the time zone of the host
    expiryDate,          \* the argument of the last getExpiryStatus call
    expiryStatus,        \* what that call returned
    db,                  \* the inventory rows the server holds
    nextId,              \* the id the server gives the next row
    items,               \* useInventory: items
    sent,                \* GET /api/inventory requests the server has not handled yet
    responses,           \* the bodies of the GET responses on their way to the client
    fetchErrors,         \* fetchItems has logged "Error fetching inventory"
    adding,              \* handleManualAdd or handleProcessImage in flight
    camera,              \* App: isCameraOpen, capturedImage, isScanning
    filter,              \* App: 'All' | 'Urgent' | 'Soon' | 'Fresh'
    carouselIndex,       \* App: carouselIndex
    recipe,              \* App: Recipe | null
    isRecipeLoading,     \* App: isRecipeLoading
    recipeCall           \* the generateRecipe call of handleGetRecipe in flight

vars == << scenario, mounted, nruns, runs, fin, script, unhandled,
           step, images, loadingImages, categoryIcons, itemIcons, emptyStates,
           loadingEmptyStates, selectedCategory, manualAddStep, idb,
           now, zone, expiryDate, expiryStatus, db, nextId, items, sent, responses,
           fetchErrors, adding, camera, filter, carouselIndex, recipe,
           isRecipeLoading, recipeCall >>

onboardingState == << step, images, loadingImages >>
appState == << categoryIcons, itemIcons, emptyStates, loadingEmptyStates,
               selectedCategory, manualAddStep >>
clockState == << now, zone >>
expiryState == << expiryDate, expiryStatus >>
inventoryState == << db, nextId, items, sent, responses, fetchErrors, adding, camera >>
viewState == << filter, carouselIndex >>
recipeState == << recipe, isRecipeLoading, recipeCall >>
control == << scenario, script, clockState, expiryState, inventoryState, viewState,
             recipeState >>

Scenarios == {"service", "onboarding", "icons", "items", "emptyStates"}

Scripts == [1..MaxScript -> ResponseShapes]

NoIcons == <<>>

\* An async function in flight.  retryCount, calls, waits and last describe
\* the generator call it is waiting for; got is what the store's get returned.
NewRun(kind, fn, pc, key, idx) ==
    [kind |-> kind, fn |-> fn, pc |-> pc, key |-> key, idx |-> idx,
     cat |-> 0, closureLoading |-> FALSE, icons |-> NoIcons, changed |-> FALSE,
     retryCount |-> 0, calls |-> 0, waits |-> <<>>, last |-> NoResponse,
     got |-> Undefined, getThrew |-> FALSE, url |-> EmptyString]

\* What the last step completed, if anything.  generated: a generator call
\* settled (calls, retryCount, waits, last, result and threw describe it).
\* completed: the request for a key ended (got and getThrew are what the
\* store's get gave it, image is the image it ended with, inMemory and stored
\* tell whether it put that image in the in-memory state and in the store).
Record(r) ==
    [kind |-> r.kind, fn |-> r.fn, key |-> r.key,
     generated |-> FALSE, completed |-> FALSE,
     got |-> r.got, getThrew |-> r.getThrew,
     calls |-> r.calls, retryCount |-> r.retryCount, waits |-> r.waits,
     last |-> r.last, result |-> EmptyString, threw |-> FALSE,
     image |-> Undefined, inMemory |-> FALSE, stored |-> FALSE]

Generated(r, out) ==
    [Record(r) EXCEPT !.generated = TRUE, !.result = out.value,
                      !.threw = (out.act = "throw")]

Completed(f, image, inMemory, stored) ==
    [f EXCEPT !.completed = TRUE, !.image = image, !.inMemory = inMemory,
              !.stored = stored]

NoFin == Record(NewRun("none", "none", "none", "none", 0))

\* Run r once its generator call has resolved with url: what the call did is
\* in fin, the run keeps the url.
Resolved(r, pc, url) ==
    [r EXCEPT !.pc = pc, !.url = url, !.retryCount = 0, !.calls = 0,
              !.waits = <<>>, !.last = NoResponse, !.got = Undefined,
              !.getThrew = FALSE]

\* The provider call of run r is dispatched: ai.models.generateContent(...).
Dispatch(r) == [r EXCEPT !.pc = "call", !.calls = r.calls + 1, !.last = NoResponse]

\* The answers the provider can give to the pending call of run r.
Answers(r) ==
    IF r.kind = "service"
    THEN IF r.calls <= Len(script)
         THEN { x \in Responses :
                  /\ x.type = script[r.calls].type
                  /\ x.code = script[r.calls].code
                  /\ x.status = script[r.calls].status }
         ELSE {}
    ELSE Responses

\* A variant in which the loop does not wait for the retry of a rate-limited
\* call: it moves on to the next entry as if the call had resolved.
Backoff_notAwaited(r, response, out) ==
    [r EXCEPT !.pc = "call", !.idx = r.idx + 1, !.calls = 1, !.retryCount = 0,
              !.last = NoResponse]

\* Run r after its pending call was answered with a retryable failure:
\* await new Promise(r => setTimeout(r, wait)).
Backoff(r, response, out) ==
    [r EXCEPT !.pc = "backoff", !.last = response, !.waits = Append(r.waits, out.wait)]

EmptyMap(D) == [k \in D |-> Undefined]

EmptyStore ==
    [onboarding_img |-> EmptyMap(Steps),
     item_icon |-> EmptyMap(ItemNames),
     empty_state |-> EmptyMap(EmptyStateIds),
     categoryIcons |-> [saved |-> FALSE, icons |-> EmptyMap(CategoryIds)]]

\* Nothing is loaded and nothing is in flight.
NoAssets ==
    /\ mounted = FALSE
    /\ nruns = 0
    /\ runs = <<>>
    /\ fin = NoFin
    /\ unhandled = FALSE
    /\ step = 0
    /\ images = EmptyMap(Steps)
    /\ loadingImages = [s \in Steps |-> FALSE]
    /\ categoryIcons = EmptyMap(CategoryIds)
    /\ itemIcons = EmptyMap(ItemNames)
    /\ emptyStates = EmptyMap(EmptyStateIds)
    /\ loadingEmptyStates = [e \in EmptyStateIds |-> FALSE]
    /\ selectedCategory = 0
    /\ manualAddStep = "null"
    /\ idb = EmptyStore

\* No classification was asked for.
NoExpiry ==
    /\ expiryDate = NoDate
    /\ expiryStatus = NoStatus

\* No item is being added: kind and pc describe the handler in flight, todo the
\* selected foods still to post, body the item of the POST in flight; asked and
\* stored count the items the last handler posted and the server stored.
NoAdding ==
    [kind |-> "none", pc |-> "idle", todo |-> <<>>,
     body |-> [id |-> 0, name |-> "none", expiry_date |-> NoDate, status |-> "none"],
     asked |-> 0, stored |-> 0]

\* The camera view is closed and holds no photo.
NoCamera == [isCameraOpen |-> FALSE, capturedImage |-> FALSE, isScanning |-> FALSE]

\* The server holds no row and was never asked for its list.
NoInventory ==
    /\ db = <<>>
    /\ nextId = 1
    /\ items = <<>>
    /\ sent = 0
    /\ responses = EmptyBag
    /\ fetchErrors = FALSE
    /\ adding = NoAdding
    /\ camera = NoCamera

\* No recipe was asked for.  pc tells what the generateRecipe call in flight
\* awaits, prompt holds the items it was called with, title the title of the
\* recipe it parsed (0 when the parsed object has none), last the provider's
\* answer to its image call.
Null == [isNull |-> TRUE, title |-> 0, imageUrl |-> Undefined]
NoCall == [pc |-> "idle", prompt |-> <<>>, title |-> 0, last |-> NoResponse]

\* The list shows every item, the carousel its first one, and no recipe.
NoView ==
    /\ filter = "All"
    /\ carouselIndex = 0
    /\ recipe = Null
    /\ isRecipeLoading = FALSE
    /\ recipeCall = NoCall

Init ==
    /\ NoView
    /\ scenario \in Scenarios
    /\ script \in (IF scenario = "service" THEN Scripts ELSE {<<>>})
    /\ NoAssets
    /\ now = 0
    /\ zone = UTC
    /\ NoExpiry
    /\ NoInventory

\* ------------------------------------------- direct calls of the generators
\* generateIndividualIcon(name, category), generateOnboardingImage(prompt) or
\* generateRecipeImage(title) is called once, with retryCount at its default.
callGenerator(fn) ==
    /\ scenario = "service"
    /\ ~mounted
    /\ mounted' = TRUE
    /\ runs' = Append(runs, Dispatch(NewRun("service", fn, "call", fn, 0)))
    /\ fin' = NoFin
    /\ UNCHANGED << control, nruns, unhandled, onboardingState, appState, idb >>

\* The setTimeout of a backoff fires: return generateX(..., retryCount + 1).
retryTimer(i) ==
    /\ runs[i].pc = "backoff"
    /\ runs' = [runs EXCEPT ![i] =
                  Dispatch([runs[i] EXCEPT !.retryCount = runs[i].retryCount + 1])]
    /\ fin' = NoFin
    /\ UNCHANGED << control, mounted, nruns, unhandled, onboardingState, appState, idb >>

\* The provider answers the pending call of a direct generator call.
serviceResponse(i) ==
    /\ runs[i].kind = "service"
    /\ runs[i].pc = "call"
    /\ \E response \in Answers(runs[i]) :
         LET r == runs[i]
             out == Generate(r.fn, response, r.retryCount)
             done == [r EXCEPT !.last = response]
         IN  IF out.act = "retry"
             THEN /\ runs' = [runs EXCEPT ![i] = Backoff(r, response, out)]
                  /\ fin' = NoFin
             ELSE /\ runs' = RemoveAt(runs, i)
                  /\ fin' = Generated(done, out)
    /\ UNCHANGED << control, mounted, nruns, unhandled, onboardingState, appState, idb >>

\* ------------------------------------------------------------ the idb store
\* A variant in which the test of the value read from the store is lost.
Cached_never(value) == FALSE

\* `if (cached)`, `if (savedIcons)`: a truthy value read from the store is a hit.
Cached(value) == Truthy(value)

\* What an awaited get or set of the store can do: complete, or throw.
StoreOutcomes == {"ok", "throws"}

\* A variant in which a request waiting to retry holds back every other
\* request: the effect starts nothing while a backoff is pending.
FetchImageEffect_blocked(rs, s) ==
    IF Truthy(images[s]) \/ \E i \in 1..Len(rs) : rs[i].pc = "backoff"
    THEN rs
    ELSE Append(rs, [NewRun("fetchImage", "generateOnboardingImage", "get",
                            OnboardingKey(s), s)
                       EXCEPT !.closureLoading = loadingImages[s]])

\* ------------------------------------------------- Onboarding: fetchImage
\* The effect of Onboarding with dependency [step], run after a render with
\* step = s: fetchImage() up to its first await.  The function closes over
\* that render's images and loadingImages.
FetchImageEffect(rs, s) ==
    IF Truthy(images[s])
    THEN rs
    ELSE Append(rs, [NewRun("fetchImage", "generateOnboardingImage", "get",
                            OnboardingKey(s), s)
                       EXCEPT !.closureLoading = loadingImages[s]])

\* Onboarding is rendered for the first time.
mountOnboarding ==
    /\ scenario = "onboarding"
    /\ ~mounted
    /\ nruns < MaxRuns
    /\ mounted' = TRUE
    /\ nruns' = nruns + 1
    /\ runs' = FetchImageEffect(runs, step)
    /\ fin' = NoFin
    /\ UNCHANGED << control, unhandled, onboardingState, appState, idb >>

\* handleNext, on a step before the last (on the last step it calls onFinish,
\* which leaves the onboarding view).
handleNext ==
    /\ scenario = "onboarding"
    /\ mounted
    /\ step < NumSteps - 1
    /\ step' = step + 1
    /\ runs' = FetchImageEffect(runs, step + 1)
    /\ nruns' = nruns + (Len(runs') - Len(runs))
    /\ nruns' <= MaxRuns
    /\ fin' = NoFin
    /\ UNCHANGED << control, mounted, unhandled, images, loadingImages, appState, idb >>

handlePrev ==
    /\ scenario = "onboarding"
    /\ mounted
    /\ step > 0
    /\ step' = step - 1
    /\ runs' = FetchImageEffect(runs, step - 1)
    /\ nruns' = nruns + (Len(runs') - Len(runs))
    /\ nruns' <= MaxRuns
    /\ fin' = NoFin
    /\ UNCHANGED << control, mounted, unhandled, images, loadingImages, appState, idb >>

\* await get(`onboarding_img_${step}`) settles.
fetchImageGet(i) ==
    /\ runs[i].kind = "fetchImage"
    /\ runs[i].pc = "get"
    /\ \E outcome \in StoreOutcomes :
         LET s == runs[i].idx
             cached == IF outcome = "ok" THEN idb.onboarding_img[s] ELSE Undefined
             r == [runs[i] EXCEPT !.got = cached, !.getThrew = (outcome = "throws")]
         IN  IF Cached(cached)
             THEN /\ images' = [images EXCEPT ![s] = cached]
                  /\ loadingImages' = loadingImages
                  /\ runs' = RemoveAt(runs, i)
                  /\ fin' = Completed(Record(r), cached, TRUE, FALSE)
             ELSE IF r.closureLoading
             THEN /\ UNCHANGED << images, loadingImages >>
                  /\ runs' = RemoveAt(runs, i)
                  /\ fin' = Completed(Record(r), Undefined, FALSE, FALSE)
             ELSE /\ loadingImages' = [loadingImages EXCEPT ![s] = TRUE]
                  /\ images' = images
                  /\ runs' = [runs EXCEPT ![i] = Dispatch(r)]
                  /\ fin' = NoFin
    /\ UNCHANGED << control, mounted, nruns, unhandled, step, appState, idb >>

\* await generateOnboardingImage(steps[step].prompt): the provider answers.
fetchImageResponse(i) ==
    /\ runs[i].kind = "fetchImage"
    /\ runs[i].pc = "call"
    /\ \E response \in Answers(runs[i]) :
         LET r == runs[i]
             s == r.idx
             out == Generate(r.fn, response, r.retryCount)
             done == [r EXCEPT !.last = response]
         IN  IF out.act = "retry"
             THEN /\ runs' = [runs EXCEPT ![i] = Backoff(r, response, out)]
                  /\ UNCHANGED << images, loadingImages >>
                  /\ fin' = NoFin
             ELSE IF out.act = "return" /\ Truthy(out.value)
             THEN /\ images' = [images EXCEPT ![s] = out.value]
                  /\ runs' = [runs EXCEPT ![i] = Resolved(done, "set", out.value)]
                  /\ loadingImages' = loadingImages
                  /\ fin' = Generated(done, out)
             ELSE /\ loadingImages' = [loadingImages EXCEPT ![s] = FALSE]
                  /\ images' = images
                  /\ runs' = RemoveAt(runs, i)
                  /\ fin' = Completed(Generated(done, out), Undefined, FALSE, FALSE)
    /\ UNCHANGED << control, mounted, nruns, unhandled, step, appState, idb >>

\* A variant of fetchImage without its finally block.
fetchImageSet_noFinally(i) ==
    /\ runs[i].kind = "fetchImage"
    /\ runs[i].pc = "set"
    /\ \E outcome \in StoreOutcomes :
         LET r == runs[i]
             s == r.idx
         IN  /\ idb' = IF outcome = "ok"
                       THEN [idb EXCEPT !.onboarding_img[s] = r.url]
                       ELSE idb
             /\ runs' = RemoveAt(runs, i)
             /\ fin' = Completed(Record(r), r.url, TRUE, outcome = "ok")
    /\ UNCHANGED << control, mounted, nruns, unhandled, step, images, loadingImages,
                    appState >>

\* await set(`onboarding_img_${step}`, url) settles; then the finally block.
fetchImageSet(i) ==
    /\ runs[i].kind = "fetchImage"
    /\ runs[i].pc = "set"
    /\ \E outcome \in StoreOutcomes :
         LET r == runs[i]
             s == r.idx
         IN  /\ idb' = IF outcome = "ok"
                       THEN [idb EXCEPT !.onboarding_img[s] = r.url]
                       ELSE idb
             /\ loadingImages' = [loadingImages EXCEPT ![s] = FALSE]
             /\ runs' = RemoveAt(runs, i)
             /\ fin' = Completed(Record(r), r.url, TRUE, outcome = "ok")
    /\ UNCHANGED << control, mounted, nruns, unhandled, step, images, appState >>

\* ------------------------------------------------------- App: fetchIcons
\* The value get('categoryIcons') resolves with: the saved object, or undefined.
SavedObject == <<"object">>

\* The loop of fetchIcons moves on to categories[n]: the next generator call is
\* dispatched, or, after the last category, set('categoryIcons', icons) is awaited.
IconsLoop(r, n) ==
    IF n <= Len(categories)
    THEN Dispatch([r EXCEPT !.idx = n, !.key = categories[n].id, !.retryCount = 0,
                            !.calls = 0, !.waits = <<>>, !.url = EmptyString,
                            !.got = Undefined, !.getThrew = FALSE])
    ELSE [Resolved(r, "set", EmptyString) EXCEPT !.idx = n, !.key = "categoryIcons"]

\* App is rendered for the first time: the effect with fetchIcons runs.
mountIcons ==
    /\ scenario = "icons"
    /\ ~mounted
    /\ nruns < MaxRuns
    /\ mounted' = TRUE
    /\ nruns' = nruns + 1
    /\ runs' = Append(runs, [NewRun("fetchIcons", "generateIndividualIcon", "get",
                                    "categoryIcons", 0)
                               EXCEPT !.icons = EmptyMap(CategoryIds)])
    /\ fin' = NoFin
    /\ UNCHANGED << control, unhandled, onboardingState, appState, idb >>

\* await get('categoryIcons') settles.
fetchIconsGet(i) ==
    /\ runs[i].kind = "fetchIcons"
    /\ runs[i].pc = "get"
    /\ \E outcome \in StoreOutcomes :
         LET savedIcons == IF outcome = "ok" /\ idb.categoryIcons.saved
                           THEN SavedObject ELSE Undefined
             r == [runs[i] EXCEPT !.got = savedIcons, !.getThrew = (outcome = "throws")]
         IN  IF Cached(savedIcons)
             THEN /\ categoryIcons' = idb.categoryIcons.icons
                  /\ runs' = RemoveAt(runs, i)
                  /\ fin' = Completed(Record(r), savedIcons, TRUE, FALSE)
             ELSE /\ categoryIcons' = categoryIcons
                  /\ runs' = [runs EXCEPT ![i] = IconsLoop(r, 1)]
                  /\ fin' = NoFin
    /\ UNCHANGED << control, mounted, nruns, unhandled, onboardingState, itemIcons,
                    emptyStates, loadingEmptyStates, selectedCategory, manualAddStep,
                    idb >>

\* await generateIndividualIcon(cat.name, cat.cat): the provider answers.
fetchIconsResponse(i) ==
    /\ runs[i].kind = "fetchIcons"
    /\ runs[i].pc = "call"
    /\ \E response \in Answers(runs[i]) :
         LET r == runs[i]
             id == categories[r.idx].id
             out == Generate(r.fn, response, r.retryCount)
             done == [r EXCEPT !.last = response]
         IN  IF out.act = "retry"
             THEN /\ runs' = [runs EXCEPT ![i] = Backoff(r, response, out)]
                  /\ fin' = NoFin
                  /\ UNCHANGED << categoryIcons, unhandled >>
             ELSE IF out.act = "throw"
             THEN /\ runs' = RemoveAt(runs, i)
                  /\ unhandled' = TRUE
                  /\ fin' = Completed(Generated(done, out), Undefined, FALSE, FALSE)
                  /\ categoryIcons' = categoryIcons
             ELSE IF Truthy(out.value)
             THEN /\ categoryIcons' = [categoryIcons EXCEPT ![id] = out.value]
                  /\ runs' = [runs EXCEPT ![i] =
                                [Resolved(done, "delay", out.value)
                                   EXCEPT !.icons = [r.icons EXCEPT ![id] = out.value]]]
                  /\ fin' = Completed(Generated(done, out), out.value, TRUE, FALSE)
                  /\ unhandled' = unhandled
             ELSE /\ runs' = [runs EXCEPT ![i] = IconsLoop(r, r.idx + 1)]
                  /\ fin' = Completed(Generated(done, out), Undefined, FALSE, FALSE)
                  /\ UNCHANGED << categoryIcons, unhandled >>
    /\ UNCHANGED << control, mounted, nruns, onboardingState, itemIcons, emptyStates,
                    loadingEmptyStates, selectedCategory, manualAddStep, idb >>

\* await new Promise(r => setTimeout(r, 3000)) is over.
fetchIconsDelay(i) ==
    /\ runs[i].kind = "fetchIcons"
    /\ runs[i].pc = "delay"
    /\ runs' = [runs EXCEPT ![i] = IconsLoop(runs[i], runs[i].idx + 1)]
    /\ fin' = NoFin
    /\ UNCHANGED << control, mounted, nruns, unhandled, onboardingState, appState, idb >>

\* await set('categoryIcons', icons) settles.
fetchIconsSet(i) ==
    /\ runs[i].kind = "fetchIcons"
    /\ runs[i].pc = "set"
    /\ \E outcome \in StoreOutcomes :
         /\ idb' = IF outcome = "ok"
                   THEN [idb EXCEPT !.categoryIcons =
                                      [saved |-> TRUE, icons |-> runs[i].icons]]
                   ELSE idb
         /\ fin' = Completed(Record(runs[i]), SavedObject, FALSE, outcome = "ok")
    /\ runs' = RemoveAt(runs, i)
    /\ UNCHANGED << control, mounted, nruns, unhandled, onboardingState, appState >>

\* -------------------------------------------------- App: fetchEmptyStates
\* The loop of fetchEmptyStates moves on to states[n], or ends.
EmptyStatesLoop(rs, i, n) ==
    IF n <= Len(states)
    THEN [rs EXCEPT ![i] = [NewRun("fetchEmptyStates", "generateOnboardingImage",
                                   "get", states[n], n) EXCEPT !.icons = rs[i].icons]]
    ELSE RemoveAt(rs, i)

\* App is rendered for the first time: the effect with fetchEmptyStates runs.
mountEmptyStates ==
    /\ scenario = "emptyStates"
    /\ ~mounted
    /\ nruns < MaxRuns
    /\ mounted' = TRUE
    /\ nruns' = nruns + 1
    /\ runs' = Append(runs, NewRun("fetchEmptyStates", "generateOnboardingImage",
                                   "get", states[1], 1))
    /\ fin' = NoFin
    /\ UNCHANGED << control, unhandled, onboardingState, appState, idb >>

\* await get(`empty_state_${state.id}`) settles.
fetchEmptyStatesGet(i) ==
    /\ runs[i].kind = "fetchEmptyStates"
    /\ runs[i].pc = "get"
    /\ \E outcome \in StoreOutcomes :
         LET id == states[runs[i].idx]
             cached == IF outcome = "ok" THEN idb.empty_state[id] ELSE Undefined
             r == [runs[i] EXCEPT !.got = cached, !.getThrew = (outcome = "throws")]
         IN  IF outcome = "throws"
             THEN /\ loadingEmptyStates' = [loadingEmptyStates EXCEPT ![id] = FALSE]
                  /\ emptyStates' = emptyStates
                  /\ runs' = EmptyStatesLoop(runs, i, r.idx + 1)
                  /\ fin' = Completed(Record(r), Undefined, FALSE, FALSE)
             ELSE IF Cached(cached)
             THEN /\ emptyStates' = [emptyStates EXCEPT ![id] = cached]
                  /\ loadingEmptyStates' = [loadingEmptyStates EXCEPT ![id] = FALSE]
                  /\ runs' = EmptyStatesLoop(runs, i, r.idx + 1)
                  /\ fin' = Completed(Record(r), cached, TRUE, FALSE)
             ELSE /\ loadingEmptyStates' = [loadingEmptyStates EXCEPT ![id] = TRUE]
                  /\ emptyStates' = emptyStates
                  /\ runs' = [runs EXCEPT ![i] = Dispatch(r)]
                  /\ fin' = NoFin
    /\ UNCHANGED << control, mounted, nruns, unhandled, onboardingState, categoryIcons,
                    itemIcons, selectedCategory, manualAddStep, idb >>

\* await generateOnboardingImage(state.prompt): the provider answers.
fetchEmptyStatesResponse(i) ==
    /\ runs[i].kind = "fetchEmptyStates"
    /\ runs[i].pc = "call"
    /\ \E response \in Answers(runs[i]) :
         LET r == runs[i]
             id == states[r.idx]
             out == Generate(r.fn, response, r.retryCount)
             done == [r EXCEPT !.last = response]
         IN  IF out.act = "retry"
             THEN /\ runs' = [runs EXCEPT ![i] = Backoff(r, response, out)]
                  /\ fin' = NoFin
                  /\ UNCHANGED << emptyStates, loadingEmptyStates >>
             ELSE IF out.act = "return" /\ Truthy(out.value)
             THEN /\ emptyStates' = [emptyStates EXCEPT ![id] = out.value]
                  /\ runs' = [runs EXCEPT ![i] = Resolved(done, "set", out.value)]
                  /\ fin' = Generated(done, out)
                  /\ loadingEmptyStates' = loadingEmptyStates
             ELSE /\ loadingEmptyStates' = [loadingEmptyStates EXCEPT ![id] = FALSE]
                  /\ emptyStates' = emptyStates
                  /\ runs' = EmptyStatesLoop(runs, i, r.idx + 1)
                  /\ fin' = Completed(Generated(done, out), Undefined, FALSE, FALSE)
    /\ UNCHANGED << control, mounted, nruns, unhandled, onboardingState, categoryIcons,
                    itemIcons, selectedCategory, manualAddStep, idb >>

\* await set(`empty_state_${state.id}`, url) settles; then the finally block.
fetchEmptyStatesSet(i) ==
    /\ runs[i].kind = "fetchEmptyStates"
    /\ runs[i].pc = "set"
    /\ \E outcome \in StoreOutcomes :
         LET r == runs[i]
             id == states[r.idx]
         IN  /\ idb' = IF outcome = "ok"
                       THEN [idb EXCEPT !.empty_state[id] = r.url]
                       ELSE idb
             /\ loadingEmptyStates' = [loadingEmptyStates EXCEPT ![id] = FALSE]
             /\ runs' = EmptyStatesLoop(runs, i, r.idx + 1)
             /\ fin' = Completed(Record(r), r.url, TRUE, outcome = "ok")
    /\ UNCHANGED << control, mounted, nruns, unhandled, onboardingState, categoryIcons,
                    itemIcons, emptyStates, selectedCategory, manualAddStep >>

\* ----------------------------------------------------- App: fetchItemIcons
\* The loop of fetchItemIcons, from item n of the selected category on: items
\* that already have an icon in newIcons are skipped (`continue`); the result
\* is the run awaiting get for the first item without one, with idx past the
\* last item when there is none.
RECURSIVE ItemsLoop(_, _)
ItemsLoop(r, n) ==
    IF n > NumItems THEN [r EXCEPT !.pc = "end", !.idx = n]
    ELSE IF Truthy(r.icons[ItemName(r.cat, n)]) THEN ItemsLoop(r, n + 1)
    ELSE [r EXCEPT !.pc = "get", !.idx = n, !.key = ItemName(r.cat, n),
                   !.retryCount = 0, !.calls = 0, !.waits = <<>>,
                   !.last = NoResponse, !.url = EmptyString,
                   !.got = Undefined, !.getThrew = FALSE]

\* The runs once run i has moved on to r: a run whose loop is over is gone.
ItemsRuns(rs, i, r) ==
    IF r.pc = "end" THEN RemoveAt(rs, i) ELSE [rs EXCEPT ![i] = r]

\* itemIcons once run i has moved on to r: `if (changed) setItemIcons(newIcons)`
\* at the end of the loop.
ItemsState(r) ==
    IF r.pc = "end" /\ r.changed THEN r.icons ELSE itemIcons

\* The manual-add sheet opens on its category list.
openManualAdd ==
    /\ scenario = "items"
    /\ manualAddStep = "null"
    /\ manualAddStep' = "categories"
    /\ fin' = NoFin
    /\ UNCHANGED << control, mounted, nruns, runs, unhandled, onboardingState,
                    categoryIcons, itemIcons, emptyStates, loadingEmptyStates,
                    selectedCategory, idb >>

\* A category button is clicked: setSelectedCategory(cat), setManualAddStep('items').
\* The effect with dependencies [selectedCategory, manualAddStep] runs
\* fetchItemIcons, which copies itemIcons and starts its loop.
selectCategory(c) ==
    /\ scenario = "items"
    /\ manualAddStep = "categories"
    /\ nruns < MaxRuns
    /\ selectedCategory' = c
    /\ manualAddStep' = "items"
    /\ nruns' = nruns + 1
    /\ LET r == ItemsLoop([NewRun("fetchItemIcons", "generateIndividualIcon", "get",
                                  "none", 1)
                             EXCEPT !.cat = c, !.icons = itemIcons], 1)
       IN  /\ runs' = IF r.pc = "end" THEN runs ELSE Append(runs, r)
           /\ itemIcons' = ItemsState(r)
    /\ fin' = NoFin
    /\ UNCHANGED << control, mounted, unhandled, onboardingState, categoryIcons,
                    emptyStates, loadingEmptyStates, idb >>

\* The back button of the item list: setManualAddStep('categories').  The
\* effect runs and returns at its guard.
backToCategories ==
    /\ scenario = "items"
    /\ manualAddStep = "items"
    /\ manualAddStep' = "categories"
    /\ fin' = NoFin
    /\ UNCHANGED << control, mounted, nruns, runs, unhandled, onboardingState,
                    categoryIcons, itemIcons, emptyStates, loadingEmptyStates,
                    selectedCategory, idb >>

\* A close button of the sheet: setManualAddStep(null).
closeManualAdd ==
    /\ scenario = "items"
    /\ manualAddStep \in {"categories", "items"}
    /\ manualAddStep' = "null"
    /\ fin' = NoFin
    /\ UNCHANGED << control, mounted, nruns, runs, unhandled, onboardingState,
                    categoryIcons, itemIcons, emptyStates, loadingEmptyStates,
                    selectedCategory, idb >>

\* await get(`item_icon_${item.name}`) settles.
fetchItemIconsGet(i) ==
    /\ runs[i].kind = "fetchItemIcons"
    /\ runs[i].pc = "get"
    /\ \E outcome \in StoreOutcomes :
         LET name == runs[i].key
             cached == IF outcome = "ok" THEN idb.item_icon[name] ELSE Undefined
             r == [runs[i] EXCEPT !.got = cached, !.getThrew = (outcome = "throws")]
             hit == ItemsLoop([r EXCEPT !.icons[name] = cached, !.changed = TRUE],
                              r.idx + 1)
             skip == ItemsLoop(r, r.idx + 1)
         IN  IF outcome = "throws"
             THEN /\ runs' = ItemsRuns(runs, i, skip)
                  /\ itemIcons' = ItemsState(skip)
                  /\ fin' = Completed(Record(r), Undefined, FALSE, FALSE)
             ELSE IF Cached(cached)
             THEN /\ runs' = ItemsRuns(runs, i, hit)
                  /\ itemIcons' = ItemsState(hit)
                  /\ fin' = Completed(Record(r), cached, hit.pc = "end", FALSE)
             ELSE /\ runs' = [runs EXCEPT ![i] = Dispatch(r)]
                  /\ itemIcons' = itemIcons
                  /\ fin' = NoFin
    /\ UNCHANGED << control, mounted, nruns, unhandled, onboardingState, categoryIcons,
                    emptyStates, loadingEmptyStates, selectedCategory, manualAddStep,
                    idb >>

\* await generateIndividualIcon(item.name, selectedCategory.name): the provider
\* answers.
fetchItemIconsResponse(i) ==
    /\ runs[i].kind = "fetchItemIcons"
    /\ runs[i].pc = "call"
    /\ \E response \in Answers(runs[i]) :
         LET r == runs[i]
             out == Generate(r.fn, response, r.retryCount)
             done == [r EXCEPT !.last = response]
             skip == ItemsLoop(r, r.idx + 1)
         IN  IF out.act = "retry"
             THEN /\ runs' = [runs EXCEPT ![i] = Backoff(r, response, out)]
                  /\ itemIcons' = itemIcons
                  /\ fin' = NoFin
             ELSE IF out.act = "return" /\ Truthy(out.value)
             THEN /\ runs' = [runs EXCEPT ![i] =
                                [Resolved(done, "set", out.value)
                                   EXCEPT !.icons[r.key] = out.value]]
                  /\ itemIcons' = itemIcons
                  /\ fin' = Generated(done, out)
             ELSE /\ runs' = ItemsRuns(runs, i, skip)
                  /\ itemIcons' = ItemsState(skip)
                  /\ fin' = Completed(Generated(done, out), Undefined, FALSE, FALSE)
    /\ UNCHANGED << control, mounted, nruns, unhandled, onboardingState, categoryIcons,
                    emptyStates, loadingEmptyStates, selectedCategory, manualAddStep,
                    idb >>

\* await set(`item_icon_${item.name}`, url) settles: on success changed = true
\* and a one second pause follows; a throw is caught after the assignments it
\* skipped.
fetchItemIconsSet(i) ==
    /\ runs[i].kind = "fetchItemIcons"
    /\ runs[i].pc = "set"
    /\ \E outcome \in StoreOutcomes :
         LET r == runs[i]
             skip == ItemsLoop(r, r.idx + 1)
         IN  IF outcome = "ok"
             THEN /\ idb' = [idb EXCEPT !.item_icon[r.key] = r.url]
                  /\ runs' = [runs EXCEPT ![i] = [r EXCEPT !.pc = "delay", !.changed = TRUE]]
                  /\ itemIcons' = itemIcons
                  /\ fin' = NoFin
             ELSE /\ idb' = idb
                  /\ runs' = ItemsRuns(runs, i, skip)
                  /\ itemIcons' = ItemsState(skip)
                  /\ fin' = Completed(Record(r), r.url,
                                      skip.pc = "end" /\ skip.changed, FALSE)
    /\ UNCHANGED << control, mounted, nruns, unhandled, onboardingState, categoryIcons,
                    emptyStates, loadingEmptyStates, selectedCategory, manualAddStep >>

\* await new Promise(r => setTimeout(r, 1000)) is over.
fetchItemIconsDelay(i) ==
    /\ runs[i].kind = "fetchItemIcons"
    /\ runs[i].pc = "delay"
    /\ LET r == runs[i]
           next == ItemsLoop(r, r.idx + 1)
       IN  /\ runs' = ItemsRuns(runs, i, next)
           /\ itemIcons' = ItemsState(next)
           /\ fin' = Completed(Record(r), r.url, next.pc = "end", TRUE)
    /\ UNCHANGED << control, mounted, nruns, unhandled, onboardingState, categoryIcons,
                    emptyStates, loadingEmptyStates, selectedCategory, manualAddStep,
                    idb >>

\* ------------------------------------------------------------- page reload
\* The page is loaded again: every async function in flight is gone, the
\* component state is back to its initial values, the store is kept.
reload ==
    /\ scenario # "service"
    /\ mounted' = FALSE
    /\ runs' = <<>>
    /\ fin' = NoFin
    /\ step' = 0
    /\ images' = EmptyMap(Steps)
    /\ loadingImages' = [s \in Steps |-> FALSE]
    /\ categoryIcons' = EmptyMap(CategoryIds)
    /\ itemIcons' = EmptyMap(ItemNames)
    /\ emptyStates' = EmptyMap(EmptyStateIds)
    /\ loadingEmptyStates' = [e \in EmptyStateIds |-> FALSE]
    /\ selectedCategory' = 0
    /\ manualAddStep' = "null"
    /\ UNCHANGED << control, nruns, unhandled, idb >>

Next ==
    \/ \E fn \in Generators : callGenerator(fn)
    \/ \E i \in 1..Len(runs) : retryTimer(i)
    \/ \E i \in 1..Len(runs) : serviceResponse(i)
    \/ mountOnboarding
    \/ handleNext
    \/ handlePrev
    \/ \E i \in 1..Len(runs) : fetchImageGet(i)
    \/ \E i \in 1..Len(runs) : fetchImageResponse(i)
    \/ \E i \in 1..Len(runs) : fetchImageSet(i)
    \/ mountIcons
    \/ \E i \in 1..Len(runs) : fetchIconsGet(i)
    \/ \E i \in 1..Len(runs) : fetchIconsResponse(i)
    \/ \E i \in 1..Len(runs) : fetchIconsDelay(i)
    \/ \E i \in 1..Len(runs) : fetchIconsSet(i)
    \/ mountEmptyStates
    \/ \E i \in 1..Len(runs) : fetchEmptyStatesGet(i)
    \/ \E i \in 1..Len(runs) : fetchEmptyStatesResponse(i)
    \/ \E i \in 1..Len(runs) : fetchEmptyStatesSet(i)
    \/ openManualAdd
    \/ \E c \in CategoryIndexes : selectCategory(c)
    \/ backToCategories
    \/ closeManualAdd
    \/ \E i \in 1..Len(runs) : fetchItemIconsGet(i)
    \/ \E i \in 1..Len(runs) : fetchItemIconsResponse(i)
    \/ \E i \in 1..Len(runs) : fetchItemIconsSet(i)
    \/ \E i \in 1..Len(runs) : fetchItemIconsDelay(i)
    \/ reload

Spec == Init /\ [][Next]_vars

\* An awaited promise of an async function in flight settles: the provider
\* answers, the store's get or set returns, or a timer fires.
Settles ==
    \E i \in 1..Len(runs) :
        \/ retryTimer(i) \/ serviceResponse(i)
        \/ fetchImageGet(i) \/ fetchImageResponse(i) \/ fetchImageSet(i)
        \/ fetchIconsGet(i) \/ fetchIconsResponse(i) \/ fetchIconsDelay(i)
        \/ fetchIconsSet(i)
        \/ fetchEmptyStatesGet(i) \/ fetchEmptyStatesResponse(i)
        \/ fetchEmptyStatesSet(i)
        \/ fetchItemIconsGet(i) \/ fetchItemIconsResponse(i)
        \/ fetchItemIconsSet(i) \/ fetchItemIconsDelay(i)

\* The asset effects when every provider call and store call returns and every
\* timer fires: the event loop runs a continuation whose promise has settled.
FairSpec == Spec /\ WF_vars(Settles)

\* The seeding of the category icons alone.
SeedingInit == Init /\ scenario = "icons"

SeedingNext ==
    \/ mountIcons
    \/ \E i \in 1..Len(runs) : retryTimer(i)
    \/ \E i \in 1..Len(runs) : fetchIconsGet(i)
    \/ \E i \in 1..Len(runs) : fetchIconsResponse(i)
    \/ \E i \in 1..Len(runs) : fetchIconsDelay(i)
    \/ \E i \in 1..Len(runs) : fetchIconsSet(i)
    \/ reload

SeedingSpec == SeedingInit /\ [][SeedingNext]_vars

\* The generators alone, called directly and answered by every sequence of
\* provider answers of length MaxScript.
GeneratorInit == Init /\ scenario = "service"

GeneratorNext ==
    \/ \E fn \in Generators : callGenerator(fn)
    \/ \E i \in 1..Len(runs) : retryTimer(i)
    \/ \E i \in 1..Len(runs) : serviceResponse(i)

GeneratorSpec == GeneratorInit /\ [][GeneratorNext]_vars

\* ------------------------------------------------- getExpiryStatus alone
\* The instants of the calendar, and the expiry dates an item can carry.
Instants == 0..((MaxDay + 1) * HoursPerDay - 1)
ExpiryDates ==
    { DateOnly(d) : d \in 0..MaxDay }
    \cup { toISOString(d * HoursPerDay + h) : d \in 0..MaxDay, h \in {0, 12, 23} }

ExpiryInit ==
    /\ NoView
    /\ scenario = "expiry"
    /\ script = <<>>
    /\ NoAssets
    /\ now \in Instants
    /\ zone \in Zones
    /\ NoExpiry
    /\ NoInventory

\* An item with expiry date `date` is rendered for the first time:
\* getExpiryStatus(item.expiry_date).
classify(date) ==
    /\ scenario = "expiry"
    /\ expiryDate = NoDate
    /\ expiryDate' = date
    /\ expiryStatus' = getExpiryStatus(date, now, zone)
    /\ UNCHANGED << scenario, script, clockState, inventoryState, viewState,
                    recipeState, mounted,
                    nruns, runs, fin, unhandled, onboardingState, appState, idb >>

\* An hour passes and the item is rendered again.
tick ==
    /\ scenario = "expiry"
    /\ expiryDate # NoDate
    /\ now + 1 \in Instants
    /\ now' = now + 1
    /\ expiryStatus' = getExpiryStatus(expiryDate, now + 1, zone)
    /\ UNCHANGED << scenario, script, zone, expiryDate, inventoryState, viewState,
                    recipeState, mounted, nruns, runs, fin, unhandled, onboardingState, appState, idb >>

ExpiryNext ==
    \/ \E date \in ExpiryDates : classify(date)
    \/ tick

ExpirySpec == ExpiryInit /\ [][ExpiryNext]_vars

\* ------------------------------------------------------------ the inventory
\* The foods of FOOD_CATEGORIES the model adds by hand, with their shelfLife,
\* and the estimated_days_left the image analysis answers with.
Foods == { [name |-> "Strawberries", shelfLife |-> 3],
           [name |-> "Milk", shelfLife |-> 7] }
Estimates == {0, 3}

\* The item handleManualAdd builds for a selected food at instant t.
ManualItem(food, t, z) ==
    [id |-> 0,
     name |-> food.name,
     expiry_date |-> toISOString(setDate(z, t, food.shelfLife)),
     status |-> IF food.shelfLife > 3 THEN "fresh" ELSE "warning"]

\* The item analyzeFoodImage returns when the model estimates n days.
analyzeFoodImage(n, t, z) ==
    [id |-> 0,
     name |-> "scanned",
     expiry_date |-> toISOString(setDate(z, t, n)),
     status |-> IF n <= 0 THEN "expired" ELSE IF n <= 2 THEN "warning" ELSE "fresh"]

\* generateRecipe: the items it passes to the model, items.filter(i =>
\* i.status !== 'expired').
expiringItems(list) == SelectSeq(list, LAMBDA i : i.status # "expired")

\* The inventory store behind /api/inventory: create(item) -> id, delete(id),
\* list() -> the rows sorted by expiry_date ascending.
Before(a, b) ==
    \/ a.expiry_date.day < b.expiry_date.day
    \/ a.expiry_date.day = b.expiry_date.day /\ a.expiry_date.hour < b.expiry_date.hour

RECURSIVE Insert(_, _)
Insert(sorted, row) ==
    IF sorted = <<>> THEN <<row>>
    ELSE IF Before(row, Head(sorted)) THEN <<row>> \o sorted
    ELSE <<Head(sorted)>> \o Insert(Tail(sorted), row)

\* A variant of the list that leaves the rows in the order of their creation.
InsertionOrder(rows) == rows

RECURSIVE SortByExpiry(_)
SortByExpiry(rows) ==
    IF rows = <<>> THEN <<>>
    ELSE Insert(SortByExpiry(SubSeq(rows, 1, Len(rows) - 1)), rows[Len(rows)])

serverCreate(rows, id, item) == Append(rows, [item EXCEPT !.id = id])
serverDelete(rows, id) == SelectSeq(rows, LAMBDA r : r.id # id)
serverList(rows) == SortByExpiry(rows)

\* What a fetch to /api/inventory can do: answer ok, answer with an error
\* status, or reject.
FetchOutcomes == {"ok", "notOk", "throws"}

\* The GET requests in flight: sent and not handled, or answered and not
\* yet arrived.
Pending == sent + BagCardinality(responses)

\* The variables the inventory part of App leaves alone.
assetState == << scenario, script, expiryState, viewState, recipeState, mounted, nruns, runs, fin,
                 unhandled, onboardingState, categoryIcons, itemIcons, emptyStates,
                 loadingEmptyStates, selectedCategory, idb >>

\* The inventory is used through the manual-add sheet and the item cards
\* ("inventory"), or through the camera ("scan").
InventoryScenarios == {"inventory", "scan"}

\* useInventory is mounted: its effect has called fetchItems().
InventoryInit ==
    /\ scenario \in InventoryScenarios
    /\ NoView
    /\ script = <<>>
    /\ NoAssets
    /\ now = 12
    /\ zone \in Zones
    /\ NoExpiry
    /\ db = <<>>
    /\ nextId = 1
    /\ items = <<>>
    /\ sent = 1
    /\ responses = EmptyBag
    /\ fetchErrors = FALSE
    /\ adding = NoAdding
    /\ camera = NoCamera

\* fetchItems, first await: the server handles a GET and answers with its
\* list, or the fetch (or res.json()) rejects and the catch block logs it.
fetchItemsServed ==
    /\ scenario \in InventoryScenarios
    /\ sent > 0
    /\ sent' = sent - 1
    /\ \E outcome \in {"ok", "throws"} :
         IF outcome = "ok"
         THEN /\ responses' = responses (+) SetToBag({serverList(db)})
              /\ fetchErrors' = fetchErrors
         ELSE /\ responses' = responses
              /\ fetchErrors' = TRUE
    /\ UNCHANGED << assetState, clockState, manualAddStep, db, nextId, items, adding,
                    camera >>

\* fetchItems, after its awaits: setItems(data) with the body of a response
\* that has arrived.
setItems ==
    /\ scenario \in InventoryScenarios
    /\ \E data \in BagToSet(responses) :
         /\ items' = data
         /\ responses' = responses (-) SetToBag({data})
    /\ UNCHANGED << assetState, clockState, manualAddStep, db, nextId, sent,
                    fetchErrors, adding, camera >>

\* The sheet is brought to the item list of a category.
openItems ==
    /\ scenario = "inventory"
    /\ manualAddStep = "null"
    /\ manualAddStep' = "items"
    /\ UNCHANGED << assetState, clockState, inventoryState >>

\* The button of the congrats step: setManualAddStep(null).
closeCongrats ==
    /\ scenario \in InventoryScenarios
    /\ manualAddStep = "congrats"
    /\ manualAddStep' = "null"
    /\ UNCHANGED << assetState, clockState, inventoryState >>

\* startCamera: setIsCameraOpen(true).
startCamera ==
    /\ scenario = "scan"
    /\ ~camera.isCameraOpen
    /\ camera' = [camera EXCEPT !.isCameraOpen = TRUE]
    /\ UNCHANGED << assetState, clockState, manualAddStep, db, nextId, items, sent,
                    responses, fetchErrors, adding >>

\* capturePhoto: setCapturedImage(dataUrl).
capturePhoto ==
    /\ scenario = "scan"
    /\ camera.isCameraOpen
    /\ ~camera.capturedImage
    /\ camera' = [camera EXCEPT !.capturedImage = TRUE]
    /\ UNCHANGED << assetState, clockState, manualAddStep, db, nextId, items, sent,
                    responses, fetchErrors, adding >>

\* The close button of the camera view: setIsCameraOpen(false),
\* setCapturedImage(null).
closeCamera ==
    /\ scenario = "scan"
    /\ camera.isCameraOpen
    /\ camera' = [camera EXCEPT !.isCameraOpen = FALSE, !.capturedImage = FALSE]
    /\ UNCHANGED << assetState, clockState, manualAddStep, db, nextId, items, sent,
                    responses, fetchErrors, adding >>

\* handleManualAdd up to its first await: the item of the first selected food
\* is built and posted by addItem.
handleManualAdd(sel) ==
    /\ scenario = "inventory"
    /\ manualAddStep = "items"
    /\ adding.pc = "idle"
    /\ adding' = [kind |-> "manual", pc |-> "post", todo |-> Tail(sel),
                  body |-> ManualItem(Head(sel), now, zone),
                  asked |-> Len(sel), stored |-> 0]
    /\ UNCHANGED << assetState, clockState, manualAddStep, db, nextId, items, sent,
                    responses, fetchErrors, camera >>

\* handleProcessImage up to its first await: setIsScanning(true) and
\* analyzeFoodImage(capturedImage) is called.
handleProcessImage ==
    /\ scenario = "scan"
    /\ camera.capturedImage
    /\ ~camera.isScanning
    /\ adding.pc = "idle"
    /\ camera' = [camera EXCEPT !.isScanning = TRUE]
    /\ adding' = [NoAdding EXCEPT !.kind = "scan", !.pc = "analyze", !.asked = 1]
    /\ UNCHANGED << assetState, clockState, manualAddStep, db, nextId, items, sent,
                    responses, fetchErrors >>

\* await analyzeFoodImage(capturedImage) settles: with an item, which addItem
\* posts, or with a throw, which the catch block reports before the finally
\* block runs.
analyzeResponse ==
    /\ scenario = "scan"
    /\ adding.pc = "analyze"
    /\ \/ /\ adding' = NoAdding
          /\ camera' = [camera EXCEPT !.isScanning = FALSE]
       \/ \E n \in Estimates :
            /\ adding' = [adding EXCEPT !.pc = "post",
                                        !.body = analyzeFoodImage(n, now, zone)]
            /\ camera' = camera
    /\ UNCHANGED << assetState, clockState, manualAddStep, db, nextId, items, sent,
                    responses, fetchErrors >>

\* await addItem(...) settles.  useInventory.addItem: the POST is answered; on
\* res.ok fetchItems() is called and not awaited; a failure is caught inside
\* addItem.  The handler then posts its next item or ends: setManualAddStep(
\* 'congrats'), and for handleProcessImage the camera is closed too.
addItem ==
    /\ scenario \in InventoryScenarios
    /\ adding.pc = "post"
    /\ \E outcome \in FetchOutcomes :
         LET ok == outcome = "ok"
             n == IF ok THEN 1 ELSE 0
         IN  /\ ok => (nextId <= MaxRows /\ Pending < MaxPending)
             /\ db' = IF ok THEN serverCreate(db, nextId, adding.body) ELSE db
             /\ nextId' = nextId + n
             /\ sent' = sent + n
             /\ IF adding.todo # <<>>
                THEN /\ adding' = [adding EXCEPT !.stored = @ + n,
                                                 !.todo = Tail(@),
                                                 !.body = ManualItem(Head(adding.todo),
                                                                     now, zone)]
                     /\ UNCHANGED << manualAddStep, camera >>
                ELSE /\ adding' = NoAdding
                     /\ manualAddStep' = "congrats"
                     /\ camera' = IF adding.kind = "scan" THEN NoCamera ELSE camera
    /\ UNCHANGED << assetState, clockState, items, responses, fetchErrors >>

\* handleConsume(id): useInventory.removeItem: the DELETE is answered; on
\* res.ok fetchItems() is called.
handleConsume(id) ==
    /\ scenario = "inventory"
    /\ \E k \in 1..Len(items) : items[k].id = id
    /\ \E outcome \in FetchOutcomes :
         /\ outcome = "ok" => Pending < MaxPending
         /\ db' = IF outcome = "ok" THEN serverDelete(db, id) ELSE db
         /\ sent' = IF outcome = "ok" THEN sent + 1 ELSE sent
    /\ UNCHANGED << assetState, clockState, manualAddStep, nextId, items, responses,
                    fetchErrors, adding, camera >>

\* A day passes.
passDay ==
    /\ scenario = "inventory"
    /\ now \div HoursPerDay < MaxAge
    /\ now' = now + HoursPerDay
    /\ UNCHANGED << assetState, zone, manualAddStep, inventoryState >>

InventoryNext ==
    \/ fetchItemsServed
    \/ setItems
    \/ openItems
    \/ closeCongrats
    \/ startCamera
    \/ capturePhoto
    \/ closeCamera
    \/ \E f \in Foods : handleManualAdd(<< f >>)
    \/ \E f \in Foods : \E g \in Foods \ {f} : handleManualAdd(<< f, g >>)
    \/ handleProcessImage
    \/ analyzeResponse
    \/ addItem
    \/ \E id \in 1..MaxRows : handleConsume(id)
    \/ passDay

InventorySpec == InventoryInit /\ [][InventoryNext]_vars

\* The inventory store alone, called directly: create, delete and list.
ServerInit ==
    /\ scenario = "server"
    /\ script = <<>>
    /\ NoAssets
    /\ now = 12
    /\ zone = UTC
    /\ NoExpiry
    /\ NoInventory
    /\ NoView

\* POST /api/inventory: create(item) -> id.
create(item) ==
    /\ scenario = "server"
    /\ nextId <= MaxRows
    /\ db' = serverCreate(db, nextId, item)
    /\ nextId' = nextId + 1
    /\ UNCHANGED << assetState, clockState, manualAddStep, items, sent, responses,
                    fetchErrors, adding, camera >>

\* DELETE /api/inventory/<id>: delete(id) -> ok.
delete(id) ==
    /\ scenario = "server"
    /\ db' = serverDelete(db, id)
    /\ UNCHANGED << assetState, clockState, manualAddStep, nextId, items, sent,
                    responses, fetchErrors, adding, camera >>

\* GET /api/inventory: list(), whose answer replaces the one before.
listAll ==
    /\ scenario = "server"
    /\ responses' = SetToBag({serverList(db)})
    /\ UNCHANGED << assetState, clockState, manualAddStep, db, nextId, items, sent,
                    fetchErrors, adding, camera >>

ServerNext ==
    \/ \E food \in Foods : create(ManualItem(food, now, zone))
    \/ \E n \in Estimates : create(analyzeFoodImage(n, now, zone))
    \/ \E id \in 1..MaxRows : delete(id)
    \/ listAll

ServerSpec == ServerInit /\ [][ServerNext]_vars

\* ------------------------------------------------ the inventory list view
\* The expiry dates of the items shown, and the lists useInventory can hand
\* to the view: up to MaxList items, the k-th with id k.
ViewLists ==
    UNION { { [k \in 1..n |-> [id |-> k, name |-> "item",
                              expiry_date |-> DateOnly(days[k]), status |-> "fresh"]] :
              days \in [1..n -> {2, 3, 6}] } :
            n \in 0..MaxList }

Filters == {"All", "Urgent", "Soon", "Fresh"}

\* A variant of the filter that reads the stored status of the item instead of
\* classifying its expiry date.
Filtered_byStatus(f) ==
    SelectSeq(items, LAMBDA item :
                \/ f = "All"
                \/ f = "Fresh" /\ item.status = "fresh"
                \/ f = "Soon" /\ item.status = "warning"
                \/ f = "Urgent" /\ item.status = "expired")

\* items.filter(item => filter === 'All' ? true :
\*                      getExpiryStatus(item.expiry_date).category === filter)
Filtered(f) ==
    SelectSeq(items, LAMBDA item :
                \/ f = "All"
                \/ getExpiryStatus(item.expiry_date, now, zone).category = f)

filteredItems == Filtered(filter)

\* The remainder operator of JavaScript: the sign of the result is the sign of
\* the dividend.
Rem(a, n) == IF a >= 0 THEN a % n ELSE 0 - ((0 - a) % n)

\* A variant of the step to the left without `+ filteredItems.length`.
Left_negative(prev, n) == Rem(prev - 1, n)

\* prev => (prev + 1) % filteredItems.length and
\* prev => (prev - 1 + filteredItems.length) % filteredItems.length
Right(prev, n) == Rem(prev + 1, n)
Left(prev, n) == Rem(prev - 1 + n, n)

\* The position the carousel renders: carouselIndex % filteredItems.length.
Position == Rem(carouselIndex, Len(filteredItems))

ViewInit ==
    /\ scenario = "view"
    /\ script = <<>>
    /\ NoAssets
    /\ now = 12
    /\ zone \in Zones
    /\ NoExpiry
    /\ db = <<>>
    /\ nextId = 1
    /\ items \in ViewLists
    /\ sent = 0
    /\ responses = EmptyBag
    /\ fetchErrors = FALSE
    /\ adding = NoAdding
    /\ camera = NoCamera
    /\ NoView

\* What the view leaves alone, items and the clock apart.
restState == << scenario, script, zone, expiryState, db, nextId, sent, responses,
                fetchErrors, adding, camera, recipeState, mounted, nruns, runs, fin,
                unhandled, onboardingState, appState, idb >>

\* A filter button: setFilter(cat); setCarouselIndex(0).
setFilter(cat) ==
    /\ scenario = "view"
    /\ filter' = cat
    /\ carouselIndex' = 0
    /\ UNCHANGED << restState, now, items >>

\* handleKeyDown, which returns at once while filteredItems is empty.
handleKeyDown(key) ==
    /\ scenario = "view"
    /\ Len(filteredItems) # 0
    /\ carouselIndex' = IF key = "ArrowRight"
                        THEN Right(carouselIndex, Len(filteredItems))
                        ELSE Left(carouselIndex, Len(filteredItems))
    /\ UNCHANGED << restState, now, items, filter >>

\* onDragEnd of the card shown: a drag of more than 50 px to the left shows
\* the next item, to the right the previous one.
onDragEnd(x) ==
    /\ scenario = "view"
    /\ Len(filteredItems) # 0
    /\ carouselIndex' = IF x < -50 THEN Right(carouselIndex, Len(filteredItems))
                        ELSE IF x > 50 THEN Left(carouselIndex, Len(filteredItems))
                        ELSE carouselIndex
    /\ UNCHANGED << restState, now, items, filter >>

\* useInventory hands the view another list: items were added or removed.
itemsChanged(list) ==
    /\ scenario = "view"
    /\ list # items
    /\ items' = list
    /\ UNCHANGED << restState, now, viewState >>

\* A day passes and the view is rendered again.
nextDay ==
    /\ scenario = "view"
    /\ now \div HoursPerDay < MaxAge
    /\ now' = now + HoursPerDay
    /\ UNCHANGED << restState, items, viewState >>

ViewNext ==
    \/ \E cat \in Filters : setFilter(cat)
    \/ \E key \in {"ArrowRight", "ArrowLeft"} : handleKeyDown(key)
    \/ \E x \in {-60, 0, 60} : onDragEnd(x)
    \/ \E list \in ViewLists : itemsChanged(list)
    \/ nextDay

ViewSpec == ViewInit /\ [][ViewNext]_vars

\* ------------------------------------------------------------- the recipe
Recipe(title, imageUrl) == [isNull |-> FALSE, title |-> title, imageUrl |-> imageUrl]

\* A variant of generateRecipe without the try/catch around its image call.
RecipeImage_noCatch(response) ==
    LET out == generateRecipeImage(response, 0)
    IN  [rejected |-> out.act = "throw", imageUrl |-> out.value]

\* generateRecipe from its image call on: try { recipe.imageUrl = await
\* generateRecipeImage(recipe.title) } catch (e) { console.error(...) }.
RecipeImage(response) ==
    LET out == generateRecipeImage(response, 0)
    IN  [rejected |-> FALSE,
         imageUrl |-> IF out.act = "throw" THEN Undefined ELSE out.value]

RecipeInit ==
    /\ scenario = "recipe"
    /\ script = <<>>
    /\ NoAssets
    /\ now = 12
    /\ zone = UTC
    /\ NoExpiry
    /\ db = <<>>
    /\ nextId = 1
    /\ items \in ViewLists
    /\ sent = 0
    /\ responses = EmptyBag
    /\ fetchErrors = FALSE
    /\ adding = NoAdding
    /\ camera = NoCamera
    /\ NoView

\* What the recipe tab leaves alone.
nonRecipeState == << scenario, script, clockState, expiryState, inventoryState,
                     viewState, mounted, nruns, runs, fin, unhandled,
                     onboardingState, appState, idb >>

\* handleGetRecipe up to its await: setIsRecipeLoading(true), setRecipe(null),
\* generateRecipe(items) sends its text call.  The button is disabled while
\* isRecipeLoading.
handleGetRecipe ==
    /\ scenario = "recipe"
    /\ ~isRecipeLoading
    /\ isRecipeLoading' = TRUE
    /\ recipe' = Null
    /\ recipeCall' = [NoCall EXCEPT !.pc = "text", !.prompt = expiringItems(items)]
    /\ UNCHANGED nonRecipeState

\* The text call of generateRecipe settles.  A throw of the provider or of
\* JSON.parse rejects generateRecipe: handleGetRecipe logs it and its finally
\* block runs.  Otherwise generateRecipeImage(recipe.title) is called.
recipeTextResponse ==
    /\ scenario = "recipe"
    /\ recipeCall.pc = "text"
    /\ \E outcome \in {"json", "empty", "malformed", "throws"} :
         IF outcome \in {"malformed", "throws"}
         THEN /\ recipeCall' = [recipeCall EXCEPT !.pc = "idle"]
              /\ isRecipeLoading' = FALSE
              /\ recipe' = recipe
         ELSE /\ \E t \in (IF outcome = "json" THEN Payloads ELSE {0}) :
                   recipeCall' = [recipeCall EXCEPT !.pc = "image", !.title = t]
              /\ UNCHANGED << recipe, isRecipeLoading >>
    /\ UNCHANGED nonRecipeState

\* The image call settles, generateRecipe returns the recipe (or rejects) and
\* handleGetRecipe goes on: setRecipe(res), then its finally block.
recipeImageResponse ==
    /\ scenario = "recipe"
    /\ recipeCall.pc = "image"
    /\ \E response \in Responses :
         LET image == RecipeImage(response)
         IN  /\ recipeCall' = [recipeCall EXCEPT !.pc = "idle", !.last = response]
             /\ recipe' = IF image.rejected THEN recipe
                          ELSE Recipe(recipeCall.title, image.imageUrl)
             /\ isRecipeLoading' = FALSE
    /\ UNCHANGED nonRecipeState

\* The close button of the recipe: setRecipe(null).
closeRecipe ==
    /\ scenario = "recipe"
    /\ recipe # Null
    /\ recipe' = Null
    /\ recipeCall' = NoCall
    /\ UNCHANGED << nonRecipeState, isRecipeLoading >>

RecipeNext ==
    \/ handleGetRecipe
    \/ recipeTextResponse
    \/ recipeImageResponse
    \/ closeRecipe

RecipeSpec == RecipeInit /\ [][RecipeNext]_vars

\* ------------------------------------------------------------------ claims
ImageGenerators == {"generateIndividualIcon", "generateOnboardingImage"}

BaseDelay(fn) ==
    IF fn = "generateIndividualIcon" THEN IconBaseDelay ELSE OnboardingBaseDelay

\* The generator calls the state shows: those in flight and the one the last
\* step settled.
InFlight == { Record(runs[i]) : i \in 1..Len(runs) }
Shown == InFlight \cup (IF fin.kind = "none" THEN {} ELSE {fin})

\* A request that ended without an image: its generator call settled with
\* nothing, and the request put nothing in the in-memory state or the store.
EndedWithoutImage(f) ==
    /\ f.result = EmptyString
    /\ f.kind # "service" =>
         /\ f.completed
         /\ f.image = Undefined
         /\ ~f.inMemory
         /\ ~f.stored

\* C1: at most one generation is in flight per key: no two provider calls for
\* the same key are unresolved at the same time.
AtMostOneInFlightPerKey ==
    \A i, j \in 1..Len(runs) :
        (/\ i # j
         /\ runs[i].pc = "call"
         /\ runs[j].pc = "call"
         /\ runs[i].kind = runs[j].kind)
        => runs[i].key # runs[j].key

\* C2: when the store's get returns a value for a key, the request uses that
\* value and makes no provider call for the key.
CacheHitShortCircuit ==
    /\ \A i \in 1..Len(runs) :
          Truthy(runs[i].got) => runs[i].calls = 0 /\ runs[i].pc \notin {"call", "backoff"}
    /\ (fin.completed /\ Truthy(fin.got)) =>
          /\ fin.calls = 0
          /\ ~fin.generated
          /\ fin.image = fin.got

CacheHitHappened ==
    /\ fin.completed
    /\ Truthy(fin.got)
    /\ fin.kind \in {"fetchImage", "fetchIcons", "fetchItemIcons", "fetchEmptyStates"}

\* C3: one logical request makes at most 4 provider calls; after a 4th
\* rate-limit answer it ends in failure instead of waiting for a 5th call.
RetryCeiling ==
    /\ \A f \in Shown : f.calls <= 4
    /\ \A i \in 1..Len(runs) : runs[i].pc = "backoff" => runs[i].calls < 4
    /\ (fin.generated /\ fin.calls = 4 /\ fin.last.type = "error") =>
          fin.result = EmptyString

RetriesExhausted ==
    /\ fin.generated
    /\ fin.calls = 4
    /\ IsRateLimited(fin.last)
    /\ fin.result = EmptyString

\* C4: answered with three rate-limit failures and then an image, a request
\* makes exactly 4 provider calls, returns the image of the 4th, and its three
\* waits do not decrease.
BackoffCorrectness ==
    (/\ scenario = "service"
     /\ \A k \in 1..3 : IsRateLimited(WithData(script[k], 0))
     /\ script[4].type = "image"
     /\ fin.generated
     /\ fin.fn \in ImageGenerators)
    => /\ fin.calls = 4
       /\ fin.last.type = "image"
       /\ fin.result = DataUrl(fin.last.data)
       /\ Len(fin.waits) = 3
       /\ fin.waits[1] <= fin.waits[2]
       /\ fin.waits[2] <= fin.waits[3]

\* C5: the wait before retry number n (n = 1, 2, 3) is exactly n times the base
\* delay, 5000 ms for generateIndividualIcon and 10000 ms for
\* generateOnboardingImage, so a request waits at most 6 base delays in all.
LinearBackoff ==
    \A f \in Shown :
        f.fn \in ImageGenerators =>
            /\ \A n \in 1..Len(f.waits) : f.waits[n] = BaseDelay(f.fn) * n
            /\ SumSeq(f.waits) <= 6 * BaseDelay(f.fn)
            /\ Len(f.waits) <= 3

ThreeBackoffs ==
    /\ fin.generated
    /\ fin.fn = "generateOnboardingImage"
    /\ Len(fin.waits) = 3
    /\ SumSeq(fin.waits) = 6 * OnboardingBaseDelay

\* C6: a failure that is not a rate-limit signal ends the request at once,
\* whatever the attempt: the only answer after which a request waits, and so
\* the only one after which it calls the provider again, is a rate-limit one.
NoRetryOnOther ==
    /\ \A i \in 1..Len(runs) :
          /\ runs[i].pc = "backoff" => IsRateLimited(runs[i].last)
          /\ runs[i].pc \in {"call", "backoff"} =>
                /\ runs[i].calls = runs[i].retryCount + 1
                /\ Len(runs[i].waits) =
                     runs[i].retryCount + (IF runs[i].pc = "backoff" THEN 1 ELSE 0)
    /\ (fin.generated /\ IsOtherFailure(fin.last)) =>
          /\ fin.calls = fin.retryCount + 1
          /\ Len(fin.waits) = fin.retryCount

OtherFailureAfterRetry ==
    /\ fin.generated
    /\ IsOtherFailure(fin.last)
    /\ fin.retryCount > 0

\* C7: a response without an image payload is treated like a failure that is
\* not a rate-limit signal: the generator decides the same for both at every
\* attempt, and the request ends without an image, nothing put in the in-memory
\* state or the store.
EmptyResponse == [type |-> "empty", code |-> 0, status |-> 0, data |-> 0]
OtherResponse == [type |-> "error", code |-> 500, status |-> 500, data |-> 0]

EmptyTreatedAsOther ==
    /\ \A i \in 1..Len(runs) :
          (runs[i].pc = "call" /\ runs[i].fn \in ImageGenerators) =>
              Generate(runs[i].fn, EmptyResponse, runs[i].retryCount)
                = Generate(runs[i].fn, OtherResponse, runs[i].retryCount)
    /\ (/\ fin.generated
        /\ fin.fn \in ImageGenerators
        /\ fin.last.type = "empty" \/ IsOtherFailure(fin.last))
       => /\ EndedWithoutImage(fin)
          /\ ~fin.threw
          /\ fin.calls = fin.retryCount + 1

EmptyResponseEndedRequest ==
    /\ fin.generated
    /\ fin.completed
    /\ fin.last.type = "empty"
    /\ fin.kind \in {"fetchImage", "fetchItemIcons"}

\* C8: every image generator classifies a failure carrying code 429, however
\* it is exposed, as rate-limited and retries it while attempts remain: an image
\* request ends on such a failure only when its 3 retries are used up.
ClassificationUniform ==
    (/\ fin.generated
     /\ fin.fn \in ImageGenerators
     /\ IsRateLimited(fin.last))
    => fin.retryCount = 3

\* C9: every image request, whatever its kind, absorbs rate-limit failures by
\* retrying: a failure reaches the caller only when it is not a rate-limit
\* signal or the retries are used up.
RateLimitAbsorbed ==
    (/\ fin.generated
     /\ fin.fn \in Generators
     /\ fin.last.type = "error")
    => \/ IsOtherFailure(fin.last)
       \/ fin.calls = 4

\* C10: a terminal failure never propagates as an exception: the image
\* generators resolve with the empty string, no rejection escapes an effect,
\* and the request ends without an image for its key.
FailureNeverThrown ==
    /\ ~unhandled
    /\ (fin.generated /\ fin.fn \in ImageGenerators) =>
          /\ ~fin.threw
          /\ fin.last.type # "image" => EndedWithoutImage(fin)

TerminalFailureInEffect ==
    /\ fin.generated
    /\ fin.completed
    /\ fin.kind \in {"fetchImage", "fetchIcons", "fetchItemIcons", "fetchEmptyStates"}
    /\ fin.last.type = "error"
    /\ fin.result = EmptyString

\* C11: all provider calls are spaced out globally: whatever the callers, no
\* two provider calls are in flight at the same instant.
GlobalSpacing ==
    \A i, j \in 1..Len(runs) :
        (runs[i].pc = "call" /\ runs[j].pc = "call") => i = j

\* The image the in-memory state used for rendering holds for a key of a
\* loading function (images, itemIcons, emptyStates, categoryIcons).
InMemory(kind, key) ==
    CASE kind = "fetchImage" -> images[CHOOSE s \in Steps : OnboardingKey(s) = key]
      [] kind = "fetchItemIcons" -> itemIcons[key]
      [] kind = "fetchEmptyStates" -> emptyStates[key]
      [] kind = "fetchIcons" /\ key \in CategoryIds -> categoryIcons[key]
      [] OTHER -> Undefined

\* The request the last step ended had generated an image and its store set
\* failed.
SetFailed ==
    /\ fin.completed
    /\ fin.kind \in {"fetchImage", "fetchItemIcons", "fetchEmptyStates"}
    /\ Truthy(fin.image)
    /\ ~Truthy(fin.got)
    /\ ~fin.stored

\* C12: when the provider returned an image and the store set for the key
\* failed, the image is in the in-memory state once the request is complete
\* (for an item icon: once its loading loop is over).
PersistenceResilience ==
    (SetFailed /\ \A i \in 1..Len(runs) : runs[i].kind # "fetchItemIcons")
    => InMemory(fin.kind, fin.key) = fin.image

\* C13: a get that throws is treated as a cache miss: the request goes on to
\* generate the image for its key.  It ends without a generator call only where
\* a miss ends it too (fetchImage started while loadingImages[step] was set).
GetFailureIsMiss ==
    (fin.completed /\ fin.getThrew /\ ~fin.generated) => fin.kind = "fetchImage"

\* C14: a failed generation writes nothing to the store: a request that ended
\* without an image stored nothing, and an entry under the bulk key
\* categoryIcons, which makes a later get report a hit for every category,
\* holds an image for every category.
FailureNotPersisted ==
    /\ (fin.completed /\ fin.generated /\ ~Truthy(fin.result)) => ~fin.stored
    /\ idb.categoryIcons.saved =>
          \A id \in CategoryIds : Truthy(idb.categoryIcons.icons[id])

\* C15: failure is recoverable: a request for a key that has no image, its
\* earlier request having failed, is not short-circuited.  A request that the
\* store short-circuits gives an image to every key it covers.
FailureRecoverable ==
    (fin.completed /\ Truthy(fin.got)) =>
        IF fin.kind = "fetchIcons"
        THEN \A id \in CategoryIds : Truthy(categoryIcons[id])
        ELSE Truthy(fin.image)

\* A step that keeps every image the in-memory state holds.
KeepsImages ==
    /\ \A s \in Steps : Truthy(images[s]) => images'[s] = images[s]
    /\ \A n \in ItemNames : Truthy(itemIcons[n]) => itemIcons'[n] = itemIcons[n]
    /\ \A e \in EmptyStateIds : Truthy(emptyStates[e]) => emptyStates'[e] = emptyStates[e]
    /\ \A c \in CategoryIds : Truthy(categoryIcons[c]) => categoryIcons'[c] = categoryIcons[c]

\* C16: never evict: within a session (that is, until the page is loaded
\* again) an image that is in the in-memory state stays there with the same
\* value, whatever the interleaving of the loading loops.
NeverEvict == [][reload \/ KeepsImages]_vars

\* C17: getExpiryStatus returns Urgent when its daysLeft is at most 2
\* (negative included), Soon when it is 3 to 5, Fresh when it is above 5, and
\* so exactly one of the three categories for every expiry date and instant.
ClassificationThresholds ==
    expiryStatus # NoStatus =>
        /\ expiryStatus.category \in {"Urgent", "Soon", "Fresh"}
        /\ expiryStatus.category = "Urgent" <=> expiryStatus.daysLeft <= 2
        /\ expiryStatus.category = "Soon" <=> expiryStatus.daysLeft \in 3..5
        /\ expiryStatus.category = "Fresh" <=> expiryStatus.daysLeft > 5

ClassifiedAtThreshold ==
    /\ expiryStatus.category = "Urgent"
    /\ expiryStatus.daysLeft = 2
    /\ expiryDate.form = "iso"

\* The day an expiry date falls on: the day a date-only string names, the
\* local day of a timestamp.
ExpiryDay(date, z) ==
    IF date.form = "date" THEN date.day ELSE LocalDate(z, NewDate(date))

\* C18: daysLeft is the number of calendar days from today's date to the
\* expiry's date, whatever the time of day of either.
CalendarDaysLeft ==
    expiryStatus # NoStatus =>
        expiryStatus.daysLeft = ExpiryDay(expiryDate, zone) - LocalDate(zone, now)

\* The status an item should carry for its days left, by the thresholds the
\* code itself uses when it creates a scanned item.
DeriveStatus(daysLeft) ==
    IF daysLeft <= 0 THEN "expired" ELSE IF daysLeft <= 2 THEN "warning" ELSE "fresh"

Rederived(item) == DeriveStatus(getExpiryStatus(item.expiry_date, now, zone).daysLeft)

\* C19: the stored status of every inventory item agrees at every time with
\* the status re-derived from its expiry_date, and generateRecipe's filter on
\* the stored status keeps no item that is expired by its date.
StatusIsProjection ==
    /\ \A k \in 1..Len(items) : items[k].status = Rederived(items[k])
    /\ \A k \in 1..Len(expiringItems(items)) :
          Rederived(expiringItems(items)[k]) # "expired"

\* The bodies of the GET responses the server gives in this step.
Answered ==
    { data \in BagToSet(responses') :
        CopiesIn(data, responses') > CopiesIn(data, responses) }

SeedsNext(i) ==
    /\ i \in DOMAIN runs /\ i \in DOMAIN runs'
    /\ runs[i].kind = "fetchIcons" /\ runs'[i].kind = "fetchIcons"
    /\ runs[i].idx >= 1
    /\ runs'[i].idx = runs[i].idx + 1
    /\ runs'[i].pc = "call"

\* C21: the fetchIcons loop dispatches the provider call for the next category
\* only in a step in which the request for the previous category has ended,
\* retries included (its final answer arrives, or the pause after its image is
\* over), and the new call is the first one for its category.
SequentialSeeding ==
    [][\A i \in 1..MaxRuns :
         SeedsNext(i) =>
            /\ runs'[i].calls = 1 /\ runs'[i].retryCount = 0
            /\ \/ runs[i].pc = "delay"
               \/ /\ runs[i].pc = "call"
                  /\ fin'.generated /\ fin'.completed
                  /\ fin'.kind = "fetchIcons" /\ fin'.key = runs[i].key]_vars

SeededAfterRetries ==
    /\ fin.kind = "fetchIcons" /\ fin.generated /\ fin.retryCount > 0
    /\ \E i \in DOMAIN runs :
         /\ runs[i].kind = "fetchIcons" /\ runs[i].pc = "call"
         /\ runs[i].idx = 2 /\ fin.key = categories[1].id

\* C22: the fetchIcons loop dispatches the provider call for the next category
\* only when the 3000 ms pause that follows the previous category's request
\* is over, whether that request ended with an image or without one.
SeedingSpacing ==
    [][\A i \in 1..MaxRuns : SeedsNext(i) => runs[i].pc = "delay"]_vars

\* What the store holds for the key of a request of the given kind.
Stored(kind, key) ==
    CASE kind = "fetchImage" -> idb.onboarding_img[CHOOSE s \in Steps : OnboardingKey(s) = key]
      [] kind = "fetchItemIcons" -> idb.item_icon[key]
      [] kind = "fetchEmptyStates" -> idb.empty_state[key]
      [] OTHER -> Undefined

\* C23: when a request for a key ends with an image and its store set
\* succeeded, then, its loading loop being over, the in-memory state and the
\* store both hold that image for the key; after the bulk set of fetchIcons
\* every category image in the store is the one in the in-memory state.
SuccessPersisted ==
    /\ (/\ fin.completed /\ fin.stored /\ Truthy(fin.image)
        /\ fin.kind \in {"fetchImage", "fetchItemIcons", "fetchEmptyStates"}
        /\ \A i \in 1..Len(runs) : runs[i].kind # "fetchItemIcons")
       => /\ InMemory(fin.kind, fin.key) = fin.image
          /\ Stored(fin.kind, fin.key) = fin.image
    /\ (fin.completed /\ fin.stored /\ fin.kind = "fetchIcons")
       => \A id \in CategoryIds :
             Truthy(idb.categoryIcons.icons[id])
                => categoryIcons[id] = idb.categoryIcons.icons[id]

\* A request for the onboarding image of step s, or for the empty-state image
\* e, is past its get and not yet over.
Generating(kind, key) ==
    \E i \in 1..Len(runs) :
        /\ runs[i].kind = kind /\ runs[i].key = key
        /\ runs[i].pc \in {"call", "backoff", "set"}

\* C24: a loading flag (loadingImages[step], loadingEmptyStates[id]) is true
\* only while a request for its key is in flight, and, every provider call,
\* store call and timer returning, a flag that is set is cleared again, on
\* success and on every failure path.
LoadingFlagsCleared ==
    /\ [](\A s \in Steps : loadingImages[s] => Generating("fetchImage", OnboardingKey(s)))
    /\ [](\A e \in EmptyStateIds :
             loadingEmptyStates[e] => Generating("fetchEmptyStates", e))
    /\ \A s \in Steps : loadingImages[s] ~> ~loadingImages[s]
    /\ \A e \in EmptyStateIds : loadingEmptyStates[e] ~> ~loadingEmptyStates[e]

\* A request that set its flag, stored its image and cleared the flag.
FlagClearedAfterSuccess ==
    /\ fin.completed /\ fin.stored
    /\ fin.kind \in {"fetchImage", "fetchEmptyStates"}
    /\ ~Generating(fin.kind, fin.key)
    /\ \A s \in Steps : ~loadingImages[s]
    /\ \A e \in EmptyStateIds : ~loadingEmptyStates[e]

\* Some request is waiting to retry after a rate-limit answer.
BackoffPending == \E i \in 1..Len(runs) : runs[i].pc = "backoff"

\* The step starts a request for key, next to the requests in flight, which it
\* leaves as they are.
Issues(key) ==
    /\ Len(runs') = Len(runs) + 1
    /\ SubSeq(runs', 1, Len(runs)) = runs
    /\ runs'[Len(runs')].key = key
    /\ runs'[Len(runs')].pc = "get"

\* C25: a backoff wait suspends only its own request: while a request waits
\* to retry, moving to an onboarding step without image, or selecting a
\* category whose first item has no icon, starts the request for that key at
\* once and leaves the waiting request in its backoff (a page reload ends
\* every request).
BackoffSuspendsOnlyItself ==
    [][(BackoffPending /\ ~reload) =>
         /\ (step' # step /\ ~Truthy(images[step'])) => Issues(OnboardingKey(step'))
         /\ (manualAddStep = "categories" /\ manualAddStep' = "items"
               /\ ~Truthy(itemIcons[ItemName(selectedCategory', 1)]))
            => Issues(ItemName(selectedCategory', 1))]_vars

\* A request for another key is at its provider call while the first request
\* is still waiting to retry.
DispatchedDuringBackoff ==
    \E i, j \in 1..Len(runs) :
        /\ runs[i].pc = "backoff"
        /\ runs[j].pc = "call"
        /\ runs[j].key # runs[i].key
        /\ i < j

\* ------------------------------------------------------------- useInventory
\* Every request has been answered, every answer has arrived and no fetch of
\* the list has failed.
Quiescent ==
    /\ scenario \in InventoryScenarios
    /\ Pending = 0
    /\ adding.pc = "idle"
    /\ ~fetchErrors

\* C26: once every request of a sequence of addItem and removeItem calls and
\* every response has completed, in whatever order, the hook's items is the
\* server's current list.
InventoryConverges == Quiescent => items = serverList(db)

\* C27: a handler that ends with the congrats step has had every item it
\* posted stored by the server; and when analyzeFoodImage fails nothing is
\* posted or stored, the captured image and the open camera are kept and
\* isScanning is false again.
CongratsOnlyWhenStored ==
    [][/\ (adding.pc = "post" /\ adding'.pc = "idle" /\ manualAddStep' = "congrats")
          => adding.stored + (Len(db') - Len(db)) = adding.asked
       /\ (adding.pc = "analyze" /\ adding'.pc = "idle")
          => /\ db' = db /\ sent' = sent
             /\ manualAddStep' = manualAddStep
             /\ camera' = [camera EXCEPT !.isScanning = FALSE]]_vars

\* ---------------------------------------------------------------- the view
\* The category getExpiryStatus gives the k-th item now.
CategoryOf(k) == getExpiryStatus(items[k].expiry_date, now, zone).category

\* The positions in items of the items of category f.
Matching(f) == { k \in 1..Len(items) : CategoryOf(k) = f }

\* C28: for filter 'All' filteredItems is items; for a filter F of Urgent,
\* Soon, Fresh it holds exactly the items whose getExpiryStatus category is F,
\* in their order in items; the lists of the three filters partition items.
FilteringExact ==
    scenario = "view" =>
        /\ filter = "All" => filteredItems = items
        /\ filter # "All" =>
              /\ Len(filteredItems) = Cardinality(Matching(filter))
              /\ \A k \in Matching(filter) :
                    filteredItems[Cardinality({ j \in Matching(filter) : j <= k })]
                       = items[k]
        /\ Len(Filtered("Urgent")) + Len(Filtered("Soon")) + Len(Filtered("Fresh"))
              = Len(items)
        /\ \A k \in 1..Len(items) :
              Cardinality({ f \in Filters \ {"All"} :
                              \E j \in 1..Len(Filtered(f)) : Filtered(f)[j] = items[k] })
                 = 1

\* A filter that keeps the first and the last of three items and drops the
\* one in between.
FilteredAroundOne ==
    /\ scenario = "view"
    /\ Len(items) = 3
    /\ filter = "Urgent"
    /\ Len(filteredItems) = 2
    /\ filteredItems[1] = items[1]
    /\ filteredItems[2] = items[3]
    /\ now > HoursPerDay

\* C29: whenever filteredItems is not empty the carousel renders an existing
\* item (carouselIndex % filteredItems.length, with the remainder of
\* JavaScript, lies in 0 .. length - 1), a step to the right followed by a
\* step to the left renders the same item again, and a change of the filter
\* sets carouselIndex to 0.
CarouselShowsItem ==
    /\ [](scenario = "view" /\ Len(filteredItems) > 0 =>
            LET n == Len(filteredItems)
            IN  /\ Position \in 0..(n - 1)
                /\ Rem(Left(Right(carouselIndex, n), n), n) = Position)
    /\ [][filter' # filter => carouselIndex' = 0]_vars

\* The index points past the end of a list that became shorter.
IndexPastEnd ==
    /\ scenario = "view"
    /\ filter # "All"
    /\ Len(filteredItems) = 2
    /\ carouselIndex = 2
    /\ Position = 0

\* ----------------------------------------------------------------- recipes
\* C30: when generateRecipeImage throws or returns no image, generateRecipe
\* still resolves with the recipe's text fields and without a usable imageUrl;
\* and handleGetRecipe ends with isRecipeLoading false whether generateRecipe
\* resolved or rejected (isRecipeLoading is true exactly while it is awaited).
RecipeWithoutPhoto ==
    /\ [](isRecipeLoading <=> recipeCall.pc # "idle")
    /\ [][(recipeCall.pc = "image" /\ recipeCall'.pc = "idle"
             /\ recipeCall'.last.type # "image")
          => /\ recipe' # Null
             /\ recipe'.title = recipeCall.title
             /\ ~Truthy(recipe'.imageUrl)
             /\ ~isRecipeLoading']_vars

\* A recipe with its title is shown after the image call threw.
RecipeShownAfterThrow ==
    /\ scenario = "recipe"
    /\ recipeCall.pc = "idle"
    /\ recipeCall.last.type = "error"
    /\ recipe # Null
    /\ recipe.title \in Payloads
    /\ recipe.imageUrl = Undefined
    /\ ~isRecipeLoading

=============================================================================
